---- MODULE Spec2Model ----
(***************************************************************************)
(* Model of scripts/translate_rss.py: the fetch -> extract -> translate -> *)
(* cache -> assemble pipeline with its two SQLite tables (translated_cache *)
(* and seen_items) and its per-feed output files.                          *)
(*                                                                         *)
(* Texts are sequences of one-character strings; a markup tag is a single  *)
(* element such as "<p>".  A SHA-1 digest is modelled as the pair          *)
(* <<"sha1", s>> of the string that was hashed, i.e. the hash is taken to  *)
(* be injective on the string it is given.                                 *)
(***************************************************************************)
EXTENDS Integers, Sequences, FiniteSets, TLC

\* ------------------------------------------------------------------ bounds
\* number of pipeline runs started in one behaviour
MaxRuns == 2

\* -------------------------------------------------------- program constants
\* main: len(article_text.strip()) >= 400
MIN_ARTICLE_CHARS == 400
\* main: truncate_for_translation(source_text, max_chars=12000)
MAX_CHARS == 12000
\* main: source_text[:600]
SNIPPET_CHARS == 600
\* main: _env_int("MAX_ITEMS_PER_FEED", 30)
DEFAULT_MAX_ITEMS == 30

\* Optional[x]: None is <<>>, a present value x is <<x>>
NoneV == <<>>
Some(x) == <<x>>

\* ------------------------------------------------------------ text helpers
WS == {" ", "\n"}
Tags == {"<p>", "</p>", "<br>"}

Rep(c, n) == [i \in 1..n |-> c]

SetMin(S) == CHOOSE x \in S : \A y \in S : x <= y
SetMax(S) == 0 - SetMin({0 - x : x \in S})

\* str.strip()
Strip(s) ==
    LET keep == {i \in 1..Len(s) : s[i] \notin WS}
    IN  IF keep = {} THEN <<>> ELSE SubSeq(s, SetMin(keep), SetMax(keep))

\* str.replace("\n", "<br/>")
RECURSIVE ReplaceNL(_)
ReplaceNL(s) ==
    LET nl == {i \in 1..Len(s) : s[i] = "\n"}
    IN  IF nl = {} THEN s
        ELSE LET i == SetMin(nl)
             IN  SubSeq(s, 1, i - 1) \o <<"<", "b", "r", "/", ">">>
                 \o ReplaceNL(SubSeq(s, i + 1, Len(s)))

\* "\n".join(parts) / " ".join(parts)
RECURSIVE Join(_, _)
Join(parts, sep) ==
    IF parts = <<>> THEN <<>>
    ELSE IF Len(parts) = 1 THEN parts[1]
    ELSE parts[1] \o sep \o Join(Tail(parts), sep)

\* the text nodes of a piece of markup: the maximal tag-free runs
RECURSIVE TextNodes(_)
TextNodes(nodes) ==
    LET tg == {i \in 1..Len(nodes) : nodes[i] \in Tags}
    IN  IF tg = {} THEN <<nodes>>
        ELSE LET i == SetMin(tg)
             IN  <<SubSeq(nodes, 1, i - 1)>> \o TextNodes(SubSeq(nodes, i + 1, Len(nodes)))

\* BeautifulSoup get_text(sep, strip=True): every text node stripped, the
\* empty ones dropped, the rest joined by sep
GetText(nodes, sep) ==
    LET stripped == [i \in 1..Len(TextNodes(nodes)) |-> Strip(TextNodes(nodes)[i])]
    IN  Join(SelectSeq(stripped, LAMBDA t : t # <<>>), sep)

\* re.sub(r"\n{3,}", "\n\n", text)
RECURSIVE CollapseNL(_)
CollapseNL(s) ==
    LET runs == {i \in 1..(Len(s) - 2) : s[i] = "\n" /\ s[i+1] = "\n" /\ s[i+2] = "\n"}
    IN  IF runs = {} THEN s
        ELSE LET i == SetMin(runs)
             IN  CollapseNL(SubSeq(s, 1, i - 1) \o SubSeq(s, i + 1, Len(s)))

sha1(s) == <<"sha1", s>>

Lower(c) ==
    CASE c = "A" -> "a" [] c = "B" -> "b" [] c = "F" -> "f" [] c = "G" -> "g"
      [] OTHER -> c

Alnum == {"a", "b", "c", "d", "e", "f", "g", "h", "i", "j", "k", "l", "m",
          "n", "o", "p", "q", "r", "s", "t", "u", "v", "w", "x", "y", "z",
          "0", "1", "2", "3", "4", "5", "6", "7", "8", "9"}

\* re.sub(r"[^a-z0-9]+", "-", s) followed by re.sub(r"-{2,}", "-", s):
\* every maximal run of non-alphanumerics becomes one hyphen
RECURSIVE Hyphenate(_)
Hyphenate(s) ==
    IF s = <<>> THEN <<>>
    ELSE IF s[1] \in Alnum THEN <<s[1]>> \o Hyphenate(Tail(s))
    ELSE LET rest == Hyphenate(Tail(s))
         IN  IF rest # <<>> /\ rest[1] = "-" THEN rest ELSE <<"-">> \o rest

StripHyphens(s) ==
    LET keep == {i \in 1..Len(s) : s[i] # "-"}
    IN  IF keep = {} THEN <<>> ELSE SubSeq(s, SetMin(keep), SetMax(keep))

slugify(s) ==
    LET low == [i \in 1..Len(Strip(s)) |-> Lower(Strip(s)[i])]
        out == StripHyphens(Hyphenate(low))
    IN  IF out = <<>> THEN <<"f", "e", "e", "d">> ELSE out

\* "\n\n[...TRUNCATED...]\n\n"
DIVIDER == <<"\n", "\n", "[", ".", ".", ".", "T", "R", "U", "N", "C", "A", "T", "E", "D",
             ".", ".", ".", "]", "\n", "\n">>

\* truncate_for_translation: int(max_chars * 0.7) and int(max_chars * 0.3)
\* are the floors of the exact products for max_chars = 12000 (8400, 3600)
\* and for every max_chars below 90; text[-0:] is the whole text
truncate_for_translation(text0, max_chars) ==
    LET text == Strip(text0)
        h == (7 * max_chars) \div 10
        t == (3 * max_chars) \div 10
    IN  IF Len(text) <= max_chars THEN text
        ELSE SubSeq(text, 1, h)
             \o DIVIDER
             \o (IF t = 0 THEN text ELSE SubSeq(text, Len(text) - t + 1, Len(text)))

\* ------------------------------------------------------------- the inputs
\* feedparser entries: id, link, title, summary, published / updated
\* ("" absent, "ok" parsable, "bad" unparsable)
EntryA == [id |-> <<"1">>, link |-> <<"u">>, title |-> <<"A">>,
           summary |-> <<"<p>", "s", " ", "</p>">>, published |-> "ok", updated |-> ""]
EntryB == [id |-> <<>>, link |-> <<>>, title |-> <<"B">>,
           summary |-> <<>>, published |-> "", updated |-> "bad"]
EntryD == [id |-> <<>>, link |-> <<>>, title |-> <<"b">>,
           summary |-> <<"<p>", " ", "</p>">>, published |-> "", updated |-> "ok"]

\* the outlines of the OPML file, in document order: (text, xmlUrl)
Outlines1 == << [title |-> <<"F">>, url |-> "x"] >>
Outlines2 == << [title |-> <<"F">>, url |-> "x"], [title |-> <<"F", "!">>, url |-> "y"],
                [title |-> <<"G">>, url |-> "x"] >>
OutlineLists == {Outlines1, Outlines2}

\* what feedparser.parse(url) returns for each feed URL
FeedEntries(url) ==
    IF url = "x" THEN <<EntryA, EntryB, EntryD, EntryA>> ELSE <<EntryA, EntryB>>

\* the page behind a link: its <article>, <main> and <body> regions
LongPage == [article |-> Some(Rep("a", 200) \o <<"<p>">> \o Rep("b", 200)),
             main |-> NoneV, body |-> Some(<<"x">>)]
ShortPage == [article |-> NoneV, main |-> Some(<<"m", "<br>", " ">>),
              body |-> Some(<<"m", "x">>)]
\* what requests.get does: raises, or returns a status code and a text
HttpOutcomes ==
    { [raises |-> TRUE,  status |-> 0,   text |-> <<>>],
      [raises |-> FALSE, status |-> 404, text |-> <<ShortPage>>],
      [raises |-> FALSE, status |-> 200, text |-> <<>>],
      [raises |-> FALSE, status |-> 200, text |-> <<LongPage>>],
      [raises |-> FALSE, status |-> 200, text |-> <<ShortPage>>] }

\* what client.responses.create does: raises, or returns a response with an
\* output_text (None or a string) and an output list (a list of text parts, or
\* something the fallback loop cannot walk)
BackendOutcomes ==
    { [raises |-> TRUE,  output_text |-> NoneV, walkable |-> TRUE, parts |-> <<>>],
      [raises |-> FALSE, output_text |-> Some(<<"T", " ">>), walkable |-> TRUE, parts |-> <<>>],
      [raises |-> FALSE, output_text |-> Some(<<" ">>), walkable |-> TRUE, parts |-> <<>>],
      [raises |-> FALSE, output_text |-> Some(<<>>), walkable |-> TRUE, parts |-> <<>>],
      [raises |-> FALSE, output_text |-> NoneV, walkable |-> FALSE, parts |-> <<>>],
      [raises |-> FALSE, output_text |-> NoneV, walkable |-> TRUE,
       parts |-> << <<"T">>, <<"U">> >>] }

\* the environment and the command line of a run
Configs ==
    [TRANSLATOR : {"openai", "deepl"}, api_key : {"", "k"},
     target_lang : {<<"e", "n">>}, max_items : {1, DEFAULT_MAX_ITEMS}]

Procs == {1, 2}

\* --------------------------------------------------------------- the code
\* parse_opml: the outlines deduplicated by URL, the first title kept
parse_opml(ols) ==
    SelectSeq([i \in 1..Len(ols) |-> [title |-> ols[i].title, url |-> ols[i].url,
                                      first |-> \A j \in 1..(i - 1) : ols[j].url # ols[i].url]],
              LAMBDA f : f.first)

\* Python truthiness of an Optional[str]
Truthy(o) == o # NoneV /\ o[1] # <<>>

\* fetch_url: None on an exception or a status >= 400, else the text
fetch_url(o) ==
    IF o.raises THEN NoneV
    ELSE IF o.status >= 400 THEN NoneV
    ELSE Some(o.text)

\* extract_main_text: <article>, else <main>, else <body>; "" when none
extract_main_text(page) ==
    LET cand == IF page.article # NoneV THEN page.article
                ELSE IF page.main # NoneV THEN page.main
                ELSE page.body
    IN  IF cand = NoneV THEN <<>>
        ELSE CollapseNL(GetText(cand[1], <<"\n">>))

\* main: the article text of an entry, from what fetch_url returned
ArticleText(html) ==
    IF Truthy(html) THEN extract_main_text(html[1][1]) ELSE <<>>

\* a choice that takes the article only when it is longer than the threshold
SourceText_longer(article_text, raw_summary) ==
    truncate_for_translation(
        IF Len(Strip(article_text)) > MIN_ARTICLE_CHARS
        THEN Strip(article_text)
        ELSE GetText(raw_summary, <<" ">>),
        MAX_CHARS)

\* main: "Choose source text to translate", then the truncation
SourceText(article_text, raw_summary) ==
    truncate_for_translation(
        IF Len(Strip(article_text)) >= MIN_ARTICLE_CHARS
        THEN Strip(article_text)
        ELSE GetText(raw_summary, <<" ">>),
        MAX_CHARS)

\* OpenAITranslator.translate, given what responses.create returned
translate(o) ==
    IF Truthy(o.output_text) THEN Strip(o.output_text[1])
    ELSE IF o.walkable THEN Strip(Join(o.parts, <<"\n">>))
    ELSE <<>>

\* a pick_translator whose translator is built without its credential check
pick_translator_lenient(cfg) ==
    /\ cfg.TRANSLATOR = "openai"

\* pick_translator and OpenAITranslator.__init__: TRUE when a translator is
\* returned, FALSE when SystemExit is raised
pick_translator(cfg) ==
    /\ cfg.TRANSLATOR = "openai"
    /\ cfg.api_key # ""

\* a cache key that leaves the target language out
CacheKey_nolang(translator_name, target_lang, source_text) ==
    sha1(<<translator_name, ":">> \o <<":">> \o source_text)

\* main: cache_key = sha1(f"{translator_name}:{target_lang}:{source_text}")
CacheKey(translator_name, target_lang, source_text) ==
    sha1(<<translator_name, ":">> \o target_lang \o <<":">> \o source_text)

\* main: eid = sha1(id + link + title)
EntryId(e) == sha1(e.id \o e.link \o e.title)

\* main: the best-effort date parse; "" when absent or unparsable
PubDate(e) ==
    IF e.published # "" THEN (IF e.published = "ok" THEN "date" ELSE "")
    ELSE IF e.updated # "" THEN (IF e.updated = "ok" THEN "date" ELSE "")
    ELSE ""

\* a lookup that never finds the row
is_seen_never(db, item_id) == FALSE

\* is_seen: SELECT 1 FROM seen_items WHERE item_id=?
is_seen(db, item_id) == item_id \in DOMAIN db

\* a mark whose insert is lost
mark_seen_lost(db, item_id, now) == db

\* a mark written as INSERT OR REPLACE
mark_seen_replace(db, item_id, now) ==
    [k \in DOMAIN db \cup {item_id} |-> IF k = item_id THEN now ELSE db[k]]

\* mark_seen: INSERT OR IGNORE INTO seen_items(item_id, first_seen)
mark_seen(db, item_id, now) ==
    IF item_id \in DOMAIN db THEN db ELSE db @@ (item_id :> now)

\* cache_get: SELECT translated FROM translated_cache WHERE key=?
cache_get(db, key) ==
    IF key \in DOMAIN db THEN Some(db[key].translated) ELSE NoneV

\* a put that writes over a record field by field and is cut half-way: the
\* record keeps the translated value and the date of the earlier put
cache_put_mixed(db, key, translator, target_lang, source_text, translated, now) ==
    [k \in DOMAIN db \cup {key} |->
        IF k = key
        THEN [created_at |-> IF key \in DOMAIN db THEN db[key].created_at ELSE now,
              translator |-> translator, target_lang |-> target_lang,
              source_len |-> Len(source_text),
              translated |-> IF key \in DOMAIN db THEN db[key].translated ELSE translated]
        ELSE db[k]]

\* a put whose insert is lost
cache_put_lost(db, key, translator, target_lang, source_text, translated, now) == db

\* cache_put: INSERT OR REPLACE INTO translated_cache(...)
cache_put(db, key, translator, target_lang, source_text, translated, now) ==
    [k \in DOMAIN db \cup {key} |->
        IF k = key
        THEN [created_at |-> now, translator |-> translator, target_lang |-> target_lang,
              source_len |-> Len(source_text), translated |-> translated]
        ELSE db[k]]

\* main: "if not translated" after cache_get
CacheMiss(translated) == ~Truthy(translated)

\* the substitution left out
LastResort_dropped(answer, source_text) == answer

\* main: "if not translated: translated = source_text  # last resort"
LastResort(answer, source_text) ==
    IF answer = <<>> THEN source_text ELSE answer

Upper(c) ==
    CASE c = "e" -> "E" [] c = "n" -> "N" [] OTHER -> c

\* an excerpt that is never cut
OrigSnip_whole(source_text) ==
    source_text

\* main: orig_snip
OrigSnip(source_text) ==
    IF Len(source_text) > SNIPPET_CHARS
    THEN SubSeq(source_text, 1, SNIPPET_CHARS) \o <<".", ".", ".">>
    ELSE source_text

\* main: the OutputItem; the description is kept as its two blocks (the fixed
\* markup around them is left out)
OutputItem(target_lang, raw_title, link, eid, pub, source_text, translated) ==
    [title |-> <<"[">> \o [i \in 1..Len(target_lang) |-> Upper(target_lang[i])]
               \o <<"]", " ">> \o raw_title,
     link |-> link,
     guid |-> eid,
     pubDate |-> pub,
     description |-> [translated |-> ReplaceNL(translated),
                      snippet |-> ReplaceNL(OrigSnip(source_text))]]

\* build_rss.esc
RECURSIVE esc(_)
esc(s) ==
    IF s = <<>> THEN <<>>
    ELSE (CASE s[1] = "&" -> <<"&", "a", "m", "p", ";">>
            [] s[1] = "<" -> <<"&", "l", "t", ";">>
            [] s[1] = ">" -> <<"&", "g", "t", ";">>
            [] OTHER -> <<s[1]>>) \o esc(Tail(s))

\* build_rss: the document, as its channel title and its items in order (a
\* guid is a hex digest, which esc leaves as it is)
build_rss(feed_title, items) ==
    [title |-> esc(feed_title),
     items |-> [i \in 1..Len(items) |->
                  [title |-> esc(items[i].title), link |-> esc(items[i].link),
                   guid |-> items[i].guid, pubDate |-> items[i].pubDate,
                   description |-> items[i].description]]]

\* main: fname = slugify(title) + f".{target_lang}.xml"
FileName(title, target_lang) == slugify(title) \o <<".">> \o target_lang \o <<".xml">>

\* --------------------------------------------------------------- the state
VARIABLES
    config,            \* the environment of the runs
    outlines,          \* the OPML file
    seen_items,        \* table seen_items: item_id -> first_seen
    translated_cache,  \* table translated_cache: key -> record
    files,             \* out_dir: file name -> document
    clock,             \* datetime.utcnow()
    pc,                \* per process: where main is
    feed_i,            \* per process: index of the feed in hand
    entry_i,           \* per process: index of the entry in hand
    out_items,         \* per process: out_items of the feed in hand
    cur,               \* per process: the locals of the entry in hand
    runs,              \* history: runs started
    crashes,           \* history: runs killed from outside
    aborts,            \* history: runs ended by an uncaught backend exception
    completed,         \* history: runs that reached the end of main
    fetch_log,         \* history: link -> number of fetches of it
    call_log,          \* history: (backend, language, text) -> number of backend calls
    doc_log,           \* history: the documents written, in order
    interrupted,       \* history: identities whose processing a crash or abort cut
    remarks,           \* history: mark_seen calls on an identity already present
    skipped,           \* history: identities of the entries is_seen made main skip
    arg,               \* the input of a function applied on its own
    res                \* the result of that application

vars == <<config, outlines, seen_items, translated_cache, files, clock, pc, feed_i,
          entry_i, out_items, cur, runs, crashes, aborts, completed, fetch_log,
          call_log, doc_log, interrupted, remarks, skipped, arg, res>>

stores == <<seen_items, translated_cache, files, clock>>
history == <<runs, crashes, aborts, completed, fetch_log, call_log, doc_log,
             interrupted, remarks, skipped>>

\* one more occurrence of x in a tally
Count(tally, x) ==
    IF x \in DOMAIN tally THEN [tally EXCEPT ![x] = @ + 1] ELSE tally @@ (x :> 1)

\* no function is being applied on its own
NoArg == [fn |-> "none"]

NoAnswer == [kind |-> "none", text |-> <<>>]
NoEntry == [eid |-> <<>>, link |-> <<>>, raw_title |-> <<>>, pub |-> "",
            source_text |-> <<>>, cache_key |-> <<>>, translated |-> NoneV,
            answer |-> NoAnswer, fetch |-> "none"]

translator_name == "openai"
Feeds == parse_opml(outlines)

\* a feed loop without the cap on the entries
Entries_uncapped(r) ==
    FeedEntries(Feeds[feed_i[r]].url)

\* main: entries = parsed.entries[:max_items]
Entries(r) ==
    LET all == FeedEntries(Feeds[feed_i[r]].url)
    IN  SubSeq(all, 1, IF config.max_items < Len(all) THEN config.max_items ELSE Len(all))

Entry(r) == Entries(r)[entry_i[r]]

\* the steps of main between is_seen and mark_seen of one entry
Processing == {"fetch", "lookup", "call", "put", "append", "mark"}
Running == {"feed", "check", "write"} \cup Processing
Stopped == {"idle", "done", "crashed", "aborted", "config_error"}

InitMain ==
    /\ seen_items = <<>>
    /\ translated_cache = <<>>
    /\ files = <<>>
    /\ clock = 1
    /\ pc = [r \in Procs |-> "idle"]
    /\ feed_i = [r \in Procs |-> 0]
    /\ entry_i = [r \in Procs |-> 0]
    /\ out_items = [r \in Procs |-> <<>>]
    /\ cur = [r \in Procs |-> NoEntry]
    /\ runs = 0
    /\ crashes = 0
    /\ aborts = 0
    /\ completed = 0
    /\ fetch_log = <<>>
    /\ call_log = <<>>
    /\ doc_log = <<>>
    /\ interrupted = {}
    /\ remarks = 0
    /\ skipped = {}

Init ==
    /\ config \in Configs
    /\ outlines \in OutlineLists
    /\ InitMain
    /\ arg = NoArg
    /\ res = NoArg

\* main up to the feed loop: load_db, pick_translator, parse_opml
StartRun(r) ==
    /\ pc[r] \in Stopped
    /\ runs < MaxRuns
    /\ runs' = runs + 1
    /\ feed_i' = [feed_i EXCEPT ![r] = 1]
    /\ entry_i' = [entry_i EXCEPT ![r] = 0]
    /\ out_items' = [out_items EXCEPT ![r] = <<>>]
    /\ cur' = [cur EXCEPT ![r] = NoEntry]
    /\ IF ~pick_translator(config)
       THEN /\ pc' = [pc EXCEPT ![r] = "config_error"]
            /\ UNCHANGED completed
       ELSE IF Feeds = <<>>
       THEN /\ pc' = [pc EXCEPT ![r] = "done"]
            /\ completed' = completed + 1
       ELSE /\ pc' = [pc EXCEPT ![r] = "feed"]
            /\ UNCHANGED completed
    /\ UNCHANGED <<config, outlines, arg, res, stores, crashes, aborts, fetch_log, call_log,
                   doc_log, interrupted, remarks, skipped>>

\* the head of the feed loop: feedparser.parse, the cap, out_items = []
BeginFeed(r) ==
    /\ pc[r] = "feed"
    /\ out_items' = [out_items EXCEPT ![r] = <<>>]
    /\ entry_i' = [entry_i EXCEPT ![r] = 1]
    /\ cur' = [cur EXCEPT ![r] = NoEntry]
    /\ pc' = [pc EXCEPT ![r] = IF Len(Entries(r)) = 0 THEN "write" ELSE "check"]
    /\ UNCHANGED <<config, outlines, arg, res, stores, feed_i, history>>

\* the entry loop moves on: the next entry, or the end of the feed
NextEntryPc(r) == IF entry_i[r] < Len(Entries(r)) THEN "check" ELSE "write"

\* the locals of an entry once its source text is known
WithSource(r, e, article_text) ==
    LET source_text == SourceText(article_text, e.summary)
    IN  [eid |-> EntryId(e), link |-> e.link, raw_title |-> e.title, pub |-> PubDate(e),
         source_text |-> source_text,
         cache_key |-> CacheKey(translator_name, config.target_lang, source_text),
         translated |-> NoneV, answer |-> NoAnswer, fetch |-> "none"]

\* an entry loop that marks the identity as soon as it finds it unseen
CheckEntry_marks(r) ==
    /\ pc[r] = "check"
    /\ IF is_seen(seen_items, EntryId(Entry(r)))
       THEN /\ entry_i' = [entry_i EXCEPT ![r] = @ + 1]
            /\ pc' = [pc EXCEPT ![r] = NextEntryPc(r)]
            /\ cur' = [cur EXCEPT ![r] = NoEntry]
            /\ skipped' = skipped \cup {EntryId(Entry(r))}
            /\ UNCHANGED seen_items
       ELSE /\ UNCHANGED <<entry_i, skipped>>
            /\ seen_items' = mark_seen(seen_items, EntryId(Entry(r)), clock)
            /\ cur' = [cur EXCEPT ![r] = WithSource(r, Entry(r), <<>>)]
            /\ pc' = [pc EXCEPT ![r] = IF Entry(r).link # <<>> THEN "fetch" ELSE "lookup"]
    /\ UNCHANGED <<config, outlines, arg, res, translated_cache, files, clock, feed_i, out_items,
                   runs, crashes, aborts, completed, fetch_log, call_log, doc_log,
                   interrupted, remarks>>

\* the head of the entry loop: eid, is_seen; an entry without a link has no
\* fetch and has its source text at once
CheckEntry(r) ==
    /\ pc[r] = "check"
    /\ IF is_seen(seen_items, EntryId(Entry(r)))
       THEN /\ entry_i' = [entry_i EXCEPT ![r] = @ + 1]
            /\ pc' = [pc EXCEPT ![r] = NextEntryPc(r)]
            /\ cur' = [cur EXCEPT ![r] = NoEntry]
            /\ skipped' = skipped \cup {EntryId(Entry(r))}
       ELSE /\ UNCHANGED <<entry_i, skipped>>
            /\ cur' = [cur EXCEPT ![r] = WithSource(r, Entry(r), <<>>)]
            /\ pc' = [pc EXCEPT ![r] = IF Entry(r).link # <<>> THEN "fetch" ELSE "lookup"]
    /\ UNCHANGED <<config, outlines, arg, res, stores, feed_i, out_items, runs, crashes, aborts,
                   completed, fetch_log, call_log, doc_log, interrupted, remarks>>

\* fetch_url, extract_main_text, the choice of the source text, the cache key
Fetch(r) ==
    /\ pc[r] = "fetch"
    /\ \E o \in HttpOutcomes :
          cur' = [cur EXCEPT ![r] =
                    [WithSource(r, Entry(r), ArticleText(fetch_url(o)))
                       EXCEPT !.fetch = IF fetch_url(o) = NoneV THEN "absent" ELSE "text"]]
    /\ fetch_log' = Count(fetch_log, cur[r].link)
    /\ pc' = [pc EXCEPT ![r] = "lookup"]
    /\ UNCHANGED <<config, outlines, arg, res, stores, feed_i, entry_i, out_items, runs, crashes,
                   aborts, completed, call_log, doc_log, interrupted, remarks, skipped>>

\* cache_get and the test of its result
Lookup(r) ==
    /\ pc[r] = "lookup"
    /\ LET translated == cache_get(translated_cache, cur[r].cache_key)
       IN  /\ cur' = [cur EXCEPT ![r].translated = translated]
           /\ pc' = [pc EXCEPT ![r] = IF CacheMiss(translated) THEN "call" ELSE "append"]
    /\ UNCHANGED <<config, outlines, arg, res, stores, feed_i, entry_i, out_items, history>>

\* translator.translate: an exception of responses.create is caught nowhere
\* and ends the run; else the last-resort substitution
Call(r) ==
    /\ pc[r] = "call"
    /\ call_log' = Count(call_log, [translator |-> translator_name,
                                    target_lang |-> config.target_lang,
                                    text |-> cur[r].source_text])
    /\ \E o \in BackendOutcomes :
          IF o.raises
          THEN /\ cur' = [cur EXCEPT ![r].answer = [kind |-> "raised", text |-> <<>>]]
               /\ pc' = [pc EXCEPT ![r] = "aborted"]
               /\ aborts' = aborts + 1
               /\ interrupted' = interrupted \cup {cur[r].eid}
          ELSE /\ cur' = [cur EXCEPT ![r].answer = [kind |-> "returned", text |-> translate(o)],
                                     ![r].translated =
                                         Some(LastResort(translate(o), cur[r].source_text))]
               /\ pc' = [pc EXCEPT ![r] = "put"]
               /\ UNCHANGED <<aborts, interrupted>>
    /\ UNCHANGED <<config, outlines, arg, res, stores, feed_i, entry_i, out_items, runs, crashes,
                   completed, fetch_log, doc_log, remarks, skipped>>

\* cache_put
Put(r) ==
    /\ pc[r] = "put"
    /\ translated_cache' = cache_put(translated_cache, cur[r].cache_key, translator_name,
                                     config.target_lang, cur[r].source_text,
                                     cur[r].translated[1], clock)
    /\ clock' = clock + 1
    /\ pc' = [pc EXCEPT ![r] = "append"]
    /\ UNCHANGED <<config, outlines, arg, res, seen_items, files, feed_i, entry_i, out_items, cur,
                   history>>

\* the description is built and the item appended to out_items
AppendItem(r) ==
    /\ pc[r] = "append"
    /\ out_items' = [out_items EXCEPT ![r] =
          Append(@, OutputItem(config.target_lang, cur[r].raw_title, cur[r].link,
                               cur[r].eid, cur[r].pub, cur[r].source_text,
                               cur[r].translated[1]))]
    /\ pc' = [pc EXCEPT ![r] = "mark"]
    /\ UNCHANGED <<config, outlines, arg, res, stores, feed_i, entry_i, cur, history>>

\* mark_seen, the last statement of the entry loop
Mark(r) ==
    /\ pc[r] = "mark"
    /\ seen_items' = mark_seen(seen_items, cur[r].eid, clock)
    /\ clock' = clock + 1
    /\ remarks' = IF cur[r].eid \in DOMAIN seen_items THEN remarks + 1 ELSE remarks
    /\ entry_i' = [entry_i EXCEPT ![r] = @ + 1]
    /\ pc' = [pc EXCEPT ![r] = NextEntryPc(r)]
    /\ UNCHANGED <<config, outlines, arg, res, translated_cache, files, feed_i, out_items, cur,
                   runs, crashes, aborts, completed, fetch_log, call_log, doc_log,
                   interrupted, skipped>>

\* a feed loop that writes no file for a feed without new items
WriteDoc_skips_empty(r) ==
    /\ pc[r] = "write"
    /\ LET title == Feeds[feed_i[r]].title
           doc == build_rss(title \o <<" (Translated -> ">> \o config.target_lang \o <<")">>,
                            out_items[r])
           fname == FileName(title, config.target_lang)
       IN  IF out_items[r] = <<>>
           THEN UNCHANGED <<files, doc_log>>
           ELSE /\ files' = [f \in DOMAIN files \cup {fname} |->
                                IF f = fname THEN doc ELSE files[f]]
                /\ doc_log' = Append(doc_log, [file |-> fname, feed |-> Feeds[feed_i[r]].url,
                                               run |-> r, doc |-> doc])
    /\ feed_i' = [feed_i EXCEPT ![r] = @ + 1]
    /\ IF feed_i[r] < Len(Feeds)
       THEN /\ pc' = [pc EXCEPT ![r] = "feed"]
            /\ UNCHANGED completed
       ELSE /\ pc' = [pc EXCEPT ![r] = "done"]
            /\ completed' = completed + 1
    /\ UNCHANGED <<config, outlines, arg, res, seen_items, translated_cache, clock, entry_i,
                   out_items, cur, runs, crashes, aborts, fetch_log, call_log,
                   interrupted, remarks, skipped>>

\* build_rss and the write of the feed's file; then the next feed or the end
WriteDoc(r) ==
    /\ pc[r] = "write"
    /\ LET title == Feeds[feed_i[r]].title
           doc == build_rss(title \o <<" (Translated -> ">> \o config.target_lang \o <<")">>,
                            out_items[r])
           fname == FileName(title, config.target_lang)
       IN  /\ files' = [f \in DOMAIN files \cup {fname} |->
                           IF f = fname THEN doc ELSE files[f]]
           /\ doc_log' = Append(doc_log, [file |-> fname, feed |-> Feeds[feed_i[r]].url,
                                          run |-> r, doc |-> doc])
    /\ feed_i' = [feed_i EXCEPT ![r] = @ + 1]
    /\ IF feed_i[r] < Len(Feeds)
       THEN /\ pc' = [pc EXCEPT ![r] = "feed"]
            /\ UNCHANGED completed
       ELSE /\ pc' = [pc EXCEPT ![r] = "done"]
            /\ completed' = completed + 1
    /\ UNCHANGED <<config, outlines, arg, res, seen_items, translated_cache, clock, entry_i,
                   out_items, cur, runs, crashes, aborts, fetch_log, call_log,
                   interrupted, remarks, skipped>>

\* the process is killed between two steps: its memory is lost, the tables
\* (committed after every statement) and the files stay
Crash(r) ==
    /\ pc[r] \in Running
    /\ pc' = [pc EXCEPT ![r] = "crashed"]
    /\ crashes' = crashes + 1
    /\ interrupted' = IF pc[r] \in Processing THEN interrupted \cup {cur[r].eid}
                      ELSE interrupted
    /\ out_items' = [out_items EXCEPT ![r] = <<>>]
    /\ cur' = [cur EXCEPT ![r] = NoEntry]
    /\ UNCHANGED <<config, outlines, arg, res, stores, feed_i, entry_i, runs, aborts, completed,
                   fetch_log, call_log, doc_log, remarks, skipped>>

\* one pipeline process at a time (the baseline: runs follow one another)
Next ==
    \E r \in {1} :
        \/ StartRun(r)
        \/ BeginFeed(r)
        \/ CheckEntry(r)
        \/ Fetch(r)
        \/ Lookup(r)
        \/ Call(r)
        \/ Put(r)
        \/ AppendItem(r)
        \/ Mark(r)
        \/ WriteDoc(r)
        \/ Crash(r)

Spec == Init /\ [][Next]_vars

\* two pipeline processes started against the same database and out_dir
\* (nothing in main keeps a second process from starting)
NextConc ==
    \E r \in Procs :
        \/ StartRun(r)
        \/ BeginFeed(r)
        \/ CheckEntry(r)
        \/ Fetch(r)
        \/ Lookup(r)
        \/ Call(r)
        \/ Put(r)
        \/ AppendItem(r)
        \/ Mark(r)
        \/ WriteDoc(r)
        \/ Crash(r)

\* the concurrent runs are taken over the one-feed list with the cap at 1
InitConc ==
    /\ Init
    /\ outlines = Outlines1
    /\ config.max_items = 1
    /\ pick_translator(config)

SpecConc == InitConc /\ [][NextConc]_vars

\* ------------------------------------------------------ a run left to run
\* the steps of a started run: each statement of main ends, a fetch and a
\* backend call included (requests.get has its timeout; responses.create
\* returns or raises)
RunStep(r) ==
    \/ BeginFeed(r)
    \/ CheckEntry(r)
    \/ Fetch(r)
    \/ Lookup(r)
    \/ Call(r)
    \/ Put(r)
    \/ AppendItem(r)
    \/ Mark(r)
    \/ WriteDoc(r)

\* runs that nothing kills: a started run takes its next step as long as it
\* has one
NextLive == StartRun(1) \/ RunStep(1)

SpecLive == Init /\ [][NextLive]_vars /\ WF_vars(RunStep(1))

\* ------------------------------------------- functions applied on their own
\* the longest text and the largest budget given to truncate_for_translation
MaxTextLen == 8
MaxBudget == 6

Alphabet == <<"a", "b", "c", "d", "e", "f", "g", "h", "i", "j">>
\* a text of n characters in which neighbours differ
TextOf(n) == [i \in 1..n |-> Alphabet[((i - 1) % Len(Alphabet)) + 1]]

\* truncate_for_translation(text, max_chars): texts with and without
\* whitespace around them
TruncateInputs ==
    { [fn |-> "truncate", text |-> l \o TextOf(n) \o t, max_chars |-> m] :
        l \in {<<>>, <<" ">>}, t \in {<<>>, <<"\n">>},
        n \in 0..MaxTextLen, m \in 1..MaxBudget }

\* pairs of entries for the identity: every part may be empty, and parts may
\* share characters
IdEntries ==
    [id : {<<>>, <<"1">>}, link : {<<>>, <<"u">>, <<"1", "u">>},
     title : {<<"A">>, <<"u", "A">>}, summary : {<<>>, <<"s">>},
     published : {""}, updated : {""}]
EntryIdInputs == { [fn |-> "eid", e1 |-> a, e2 |-> b] : a \in IdEntries, b \in IdEntries }

\* pairs of (translator_name, target_lang, source_text) for the cache key
KeyTriples ==
    [translator_name : {"openai", "deepl"},
     target_lang : {<<"e", "n">>, <<"e">>, <<"e", ":">>},
     source_text : {<<>>, <<"s">>, <<":", "s">>}]
CacheKeyInputs == { [fn |-> "key", k1 |-> a, k2 |-> b] : a \in KeyTriples, b \in KeyTriples }

\* source texts around the length of the snippet, with and without newlines
SnipInputs ==
    { [fn |-> "snip", source_text |-> h \o Rep("a", n)] :
        h \in {<<>>, <<"\n">>, <<"b", "\n", "\n">>},
        n \in {0, 1, SNIPPET_CHARS - 3, SNIPPET_CHARS - 1, SNIPPET_CHARS,
               SNIPPET_CHARS + 1, SNIPPET_CHARS + 100} }

\* a page whose <article> has n characters of text
PageOf(n) == [article |-> Some(<<" ">> \o Rep("a", n) \o <<"\n">>), main |-> NoneV,
              body |-> Some(Rep("x", MIN_ARTICLE_CHARS))]
\* a page without <article>, <main> and <body>
NoRegionPage == [article |-> NoneV, main |-> NoneV, body |-> NoneV]

\* an entry with or without link, and what requests.get does for the link:
\* article texts around the threshold and one over the budget
SourceInputs ==
    { [fn |-> "source", e |-> [EntryA EXCEPT !.link = l], o |-> o] :
        l \in {<<>>, <<"u">>},
        o \in { [raises |-> TRUE,  status |-> 0,   text |-> <<>>],
                [raises |-> FALSE, status |-> 500, text |-> <<PageOf(MIN_ARTICLE_CHARS)>>],
                [raises |-> FALSE, status |-> 200, text |-> <<>>],
                [raises |-> FALSE, status |-> 200, text |-> <<NoRegionPage>>] }
           \cup { [raises |-> FALSE, status |-> 200, text |-> <<PageOf(n)>>] :
                    n \in {0, MIN_ARTICLE_CHARS - 1, MIN_ARTICLE_CHARS,
                           MIN_ARTICLE_CHARS + 1, MAX_CHARS, MAX_CHARS + 1} } }

FnInputs ==
    TruncateInputs \cup EntryIdInputs \cup CacheKeyInputs \cup SnipInputs \cup SourceInputs

InitFn ==
    /\ config = [TRANSLATOR |-> "openai", api_key |-> "k", target_lang |-> <<"e", "n">>,
                 max_items |-> DEFAULT_MAX_ITEMS]
    /\ outlines = Outlines1
    /\ InitMain
    /\ arg \in FnInputs
    /\ res = NoArg

ApplyTruncate ==
    /\ arg.fn = "truncate" /\ res = NoArg
    /\ res' = [fn |-> "truncate", out |-> truncate_for_translation(arg.text, arg.max_chars)]
    /\ UNCHANGED <<config, outlines, arg, stores, pc, feed_i, entry_i, out_items, cur, history>>

ApplyEntryId ==
    /\ arg.fn = "eid" /\ res = NoArg
    /\ res' = [fn |-> "eid", eid1 |-> EntryId(arg.e1), eid2 |-> EntryId(arg.e2)]
    /\ UNCHANGED <<config, outlines, arg, stores, pc, feed_i, entry_i, out_items, cur, history>>

ApplyCacheKey ==
    /\ arg.fn = "key" /\ res = NoArg
    /\ res' = [fn |-> "key",
               key1 |-> CacheKey(arg.k1.translator_name, arg.k1.target_lang,
                                 arg.k1.source_text),
               key2 |-> CacheKey(arg.k2.translator_name, arg.k2.target_lang,
                                 arg.k2.source_text)]
    /\ UNCHANGED <<config, outlines, arg, stores, pc, feed_i, entry_i, out_items, cur, history>>

\* the excerpt as main cuts it, and as the description of the item holds it
ApplySnip ==
    /\ arg.fn = "snip" /\ res = NoArg
    /\ res' = [fn |-> "snip",
               orig_snip |-> OrigSnip(arg.source_text),
               embedded |-> OutputItem(config.target_lang, <<"A">>, <<"u">>, <<>>, "",
                                       arg.source_text, arg.source_text)
                               .description.snippet]
    /\ UNCHANGED <<config, outlines, arg, stores, pc, feed_i, entry_i, out_items, cur, history>>

\* the locals of an entry as the head of the entry loop and the fetch leave
\* them (CheckEntry, then Fetch when there is a link)
ApplySource ==
    /\ arg.fn = "source" /\ res = NoArg
    /\ res' = [fn |-> "source",
               cur |-> IF arg.e.link # <<>>
                       THEN WithSource(1, arg.e, ArticleText(fetch_url(arg.o)))
                       ELSE WithSource(1, arg.e, <<>>)]
    /\ UNCHANGED <<config, outlines, arg, stores, pc, feed_i, entry_i, out_items, cur, history>>

NextFn == ApplyTruncate \/ ApplyEntryId \/ ApplyCacheKey \/ ApplySnip \/ ApplySource

SpecFn == InitFn /\ [][NextFn]_vars

\* ----------------------------------------------------------------- claims
Last(q) == q[Len(q)]
Guids(doc) == {doc.items[j].guid : j \in DOMAIN doc.items}
EmptyAnswer == [kind |-> "returned", text |-> <<>>]

\* C1: an entry whose identity is in seen_items when main reaches it is
\* skipped: the step main takes from there fetches nothing, calls no backend,
\* writes neither table, appends no item and goes on to the next entry or to
\* the end of the feed.
C1_SeenEntrySkipped ==
    [][\A r \in Procs :
          ( /\ pc[r] = "check"
            /\ EntryId(Entry(r)) \in DOMAIN seen_items
            /\ <<pc[r], entry_i[r]>> # <<pc'[r], entry_i'[r]>> )
          => /\ pc'[r] \in {"check", "write", "crashed"}
             /\ fetch_log' = fetch_log
             /\ call_log' = call_log
             /\ translated_cache' = translated_cache
             /\ seen_items' = seen_items
             /\ (out_items'[r] = out_items[r] \/ pc'[r] = "crashed")]_vars

\* an entry has been skipped as seen and main has moved on
C1_Witness ==
    /\ skipped # {}
    /\ skipped \subseteq DOMAIN seen_items
    /\ pc[1] \in {"check", "write"}

\* C2: over runs that end normally, the backend is called at most once for
\* each (backend, language, source text), the empty text included.
C2_AtMostOneCallPerTriple ==
    (crashes = 0 /\ aborts = 0) => \A t \in DOMAIN call_log : call_log[t] <= 1

\* C3: when a run has completed, after crashed runs or none, every identity
\* in seen_items is the guid of an item of some document that was written.
C3_SeenIdentityDelivered ==
    (pc[1] = "done" /\ aborts = 0)
    => \A id \in DOMAIN seen_items : \E i \in DOMAIN doc_log : id \in Guids(doc_log[i].doc)

\* C4: seen_items changes only by the mark of the entry in hand, taken when
\* its item is the last of out_items and its translation is resolved and in
\* the cache; up to that mark the identity is absent from seen_items, also in
\* the state a crash leaves; and a run that reaches an entry whose identity
\* is absent processes it.
C4_MarkOnlyAfterItem ==
    [][ /\ seen_items' # seen_items
           => \E r \in Procs :
                 /\ pc[r] = "mark"
                 /\ DOMAIN seen_items' = DOMAIN seen_items \cup {cur[r].eid}
                 /\ out_items[r] # <<>>
                 /\ Last(out_items[r]).guid = cur[r].eid
                 /\ cur[r].translated # NoneV
                 /\ cur[r].cache_key \in DOMAIN translated_cache
        /\ \A r \in Procs :
              /\ pc'[r] \in Processing => cur'[r].eid \notin DOMAIN seen_items'
              /\ (pc[r] \in Processing /\ pc'[r] = "crashed")
                    => cur[r].eid \notin DOMAIN seen_items'
              /\ ( /\ pc[r] = "check"
                   /\ EntryId(Entry(r)) \notin DOMAIN seen_items
                   /\ pc'[r] \notin {"check", "crashed"} )
                 => /\ pc'[r] \in {"fetch", "lookup"}
                    /\ cur'[r].eid = EntryId(Entry(r)) ]_vars

\* an entry whose processing a crash cut is in hand again, at its mark
C4_Witness ==
    /\ crashes >= 1
    /\ aborts = 0
    /\ pc[1] = "mark"
    /\ cur[1].eid \in interrupted

\* C5: a backend call that raises does not end the run.
C5_ServiceErrorNonFatal ==
    \A r \in Procs : cur[r].answer.kind = "raised" => pc[r] # "aborted"

\* C6 as stated: after an empty answer of the backend the item's translated
\* block and the cache record's translated field both equal the source text.
C6_EmptyAnswerBlockIsSource ==
    \A r \in Procs :
        (pc[r] = "mark" /\ cur[r].answer = EmptyAnswer)
        => /\ Last(out_items[r]).description.translated = cur[r].source_text
           /\ translated_cache[cur[r].cache_key].translated = cur[r].source_text

\* C6 as amended: after an empty answer of the backend the cache record's
\* translated field equals the source text, and the item's translated block
\* is the source text with every newline written as <br/>.
C6_EmptyAnswerSubstitutes ==
    \A r \in Procs :
        (pc[r] = "mark" /\ cur[r].answer = EmptyAnswer)
        => /\ Last(out_items[r]).description.translated = ReplaceNL(cur[r].source_text)
           /\ translated_cache[cur[r].cache_key].translated = cur[r].source_text

\* the backend answered a source text of several lines with the empty string
C6_Witness ==
    /\ pc[1] = "mark"
    /\ cur[1].answer = EmptyAnswer
    /\ \E i \in DOMAIN cur[1].source_text : cur[1].source_text[i] = "\n"

\* C7: once a run has completed, a later run over the same feeds fetches
\* nothing, calls no backend, leaves both tables as they are and writes
\* documents without items.
C7_RerunIsEmpty ==
    [][completed >= 1
       => /\ fetch_log' = fetch_log
          /\ call_log' = call_log
          /\ seen_items' = seen_items
          /\ translated_cache' = translated_cache
          /\ doc_log' # doc_log => Last(doc_log').doc.items = <<>>]_vars

\* a second run has completed after a first that processed entries
C7_Witness ==
    /\ completed >= 2
    /\ pc[1] = "done"
    /\ seen_items # <<>>
    /\ Last(doc_log).doc.items = <<>>

\* C8: over runs that each complete, no identity is the guid of two items of
\* the documents written, and the item just built carries the identity of
\* the entry in hand.
C8_GuidOncePerIdentity ==
    (crashes = 0 /\ aborts = 0)
    => /\ \A i \in DOMAIN doc_log :
             /\ Cardinality(Guids(doc_log[i].doc)) = Len(doc_log[i].doc.items)
             /\ \A k \in DOMAIN doc_log : k # i =>
                    Guids(doc_log[i].doc) \cap Guids(doc_log[k].doc) = {}
       /\ \A r \in Procs : pc[r] = "mark" => Last(out_items[r]).guid = EntryId(Entry(r))

\* two runs have completed over two feeds that hold the same entry three times
C8_Witness ==
    /\ crashes = 0
    /\ aborts = 0
    /\ completed = 2
    /\ outlines = Outlines2
    /\ config.max_items = DEFAULT_MAX_ITEMS
    /\ \E i \in DOMAIN doc_log : EntryId(EntryA) \in Guids(doc_log[i].doc)

\* C9: a cache record, once stored, keeps its translated value and its
\* created_at through every later step.
C9_CacheRecordNeverChanges ==
    [][\A k \in DOMAIN translated_cache :
          /\ k \in DOMAIN translated_cache'
          /\ translated_cache'[k].translated = translated_cache[k].translated
          /\ translated_cache'[k].created_at = translated_cache[k].created_at]_vars

\* C10: no step removes an identity from seen_items or changes its
\* first_seen, and a mark of an identity already present changes nothing.
C10_SeenStoreOnlyGrows ==
    [][ /\ \A id \in DOMAIN seen_items :
              id \in DOMAIN seen_items' /\ seen_items'[id] = seen_items[id]
        /\ remarks' > remarks => seen_items' = seen_items ]_vars

\* an identity already present has been marked again
C10_Witness ==
    /\ remarks > 0
    /\ seen_items # <<>>

\* the identities of the entries of the feed of that URL
FeedIds(url) == {EntryId(FeedEntries(url)[j]) : j \in DOMAIN FeedEntries(url)}

\* the feeds main has left behind in the run in hand: their documents are the
\* last ones written, one per feed, in the order of the feed list
C11_OneDocPerFeedInOrder ==
    pc[1] \in Running \cup {"done"}
    => LET n == feed_i[1] - 1
       IN  /\ Len(doc_log) >= n
           /\ \A k \in 1..n : doc_log[Len(doc_log) - n + k].feed = Feeds[k].url

\* a document is written only by the step that ends a feed: every entry of
\* the feed is in seen_items by then, the document is the one built from the
\* items of this feed in this run, and the next feed has not begun
C11_WriteStep ==
    doc_log' # doc_log
    => /\ pc[1] = "write"
       /\ entry_i[1] = Len(Entries(1)) + 1
       /\ \A j \in DOMAIN Entries(1) : EntryId(Entries(1)[j]) \in DOMAIN seen_items
       /\ Len(doc_log') = Len(doc_log) + 1
       /\ SubSeq(doc_log', 1, Len(doc_log)) = doc_log
       /\ Last(doc_log').feed = Feeds[feed_i[1]].url
       /\ Last(doc_log').doc.items = build_rss(<<>>, out_items[1]).items
       /\ Guids(Last(doc_log').doc) \subseteq FeedIds(Feeds[feed_i[1]].url)
       /\ files'[Last(doc_log').file] = Last(doc_log').doc
       /\ feed_i'[1] = feed_i[1] + 1
       /\ pc'[1] \in {"feed", "done"}

\* C11: in a run the feeds are handled in the order of the feed list and each
\* gets exactly one document write, made after its last entry is skipped or
\* marked and before the next feed begins, also when the feed gave no new
\* item; the document holds exactly the items built for the feed in this run.
C11_OneWritePerFeedAfterEntries ==
    []C11_OneDocPerFeedInOrder /\ [][C11_WriteStep]_vars

\* a run over two feeds is complete: one document with items, one without
C11_Witness ==
    /\ pc[1] = "done"
    /\ Len(Feeds) = 2
    /\ Len(doc_log) >= 2
    /\ doc_log[Len(doc_log) - 1].doc.items # <<>>
    /\ Last(doc_log).doc.items = <<>>
    /\ doc_log[Len(doc_log) - 1].feed = Feeds[1].url
    /\ Last(doc_log).feed = Feeds[2].url

\* C12: after a completed run (the feeds of the list have pairwise distinct
\* URLs, parse_opml sees to that) every feed has its own file and the file
\* holds the document written for that feed in this run.
C12_EachFeedOwnFile ==
    pc[1] = "done"
    => LET n == Len(Feeds)
           written(k) == doc_log[Len(doc_log) - n + k]
       IN  \A k \in 1..n :
              /\ files[written(k).file] = written(k).doc
              /\ \A j \in 1..n : j # k => written(j).file # written(k).file

\* C13: with an unrecognized backend identifier or a missing credential the
\* run ends before any feed is retrieved: nothing is fetched, no backend is
\* called, neither table gets a record and no document is written.
C13_ConfigErrorBeforeAnyFeed ==
    (config.TRANSLATOR # "openai" \/ config.api_key = "")
    => /\ pc[1] \in {"idle", "config_error"}
       /\ feed_i[1] \in {0, 1} /\ entry_i[1] = 0 /\ out_items[1] = <<>>
       /\ fetch_log = <<>> /\ call_log = <<>>
       /\ seen_items = <<>> /\ translated_cache = <<>>
       /\ files = <<>> /\ doc_log = <<>>
       /\ completed = 0

\* the run was started twice without a credential and ended there both times
C13_Witness ==
    /\ config.TRANSLATOR = "openai" /\ config.api_key = ""
    /\ pc[1] = "config_error"
    /\ runs = 2

\* the entry in hand had its link fetched and fetch_url returned None
AbsentFetch(r) == cur[r].fetch = "absent"

\* after an absent fetch: no second fetch, the source text is the summary
\* without its markup, and once the entry loop has moved on the identity is
\* in seen_items and its item among the items of the feed
C14_Degrades(r) ==
    /\ pc[r] # "fetch"
    /\ \E k \in DOMAIN Feeds : \E j \in DOMAIN FeedEntries(Feeds[k].url) :
          /\ EntryId(FeedEntries(Feeds[k].url)[j]) = cur[r].eid
          /\ FeedEntries(Feeds[k].url)[j].link # <<>>
          /\ cur[r].source_text = SourceText(<<>>, FeedEntries(Feeds[k].url)[j].summary)
    /\ pc[r] \in {"mark", "check", "write", "feed", "done"}
       => \E j \in DOMAIN out_items[r] : out_items[r][j].guid = cur[r].eid
    /\ pc[r] \in {"check", "write", "feed", "done"} => cur[r].eid \in DOMAIN seen_items

\* C14: for an unseen entry whose link fetch returns absence the run goes
\* on: one fetch and no retry, the source text is the summary stripped of
\* its markup, an item is still produced and the identity is marked seen.
C14_AbsentFetchStillDelivers ==
    \A r \in {1} : AbsentFetch(r) => pc[r] # "aborted" /\ C14_Degrades(r)

\* C15: for every max_chars >= 1, a text whose trimmed length exceeds
\* max_chars is cut to at most max_chars characters plus the divider, the
\* result beginning with the first floor(0.7 * max_chars) characters of the
\* trimmed text and ending with its last floor(0.3 * max_chars); a text whose
\* trimmed length is at most max_chars comes back trimmed.
C15_TruncateBounded ==
    res # NoArg /\ res.fn = "truncate"
    => LET text == Strip(arg.text)
           m == arg.max_chars
           h == (7 * m) \div 10
           t == (3 * m) \div 10
           out == res.out
       IN  IF Len(text) <= m THEN out = text
           ELSE /\ Len(out) <= m + Len(DIVIDER)
                /\ SubSeq(out, 1, h) = SubSeq(text, 1, h)
                /\ SubSeq(out, Len(out) - t + 1, Len(out))
                      = SubSeq(text, Len(text) - t + 1, Len(text))

\* a is b with some of its elements left out
RECURSIVE IsSubseq(_, _)
IsSubseq(a, b) ==
    IF a = <<>> THEN TRUE
    ELSE IF b = <<>> THEN FALSE
    ELSE IF a[1] = b[1] THEN IsSubseq(Tail(a), Tail(b))
    ELSE IsSubseq(a, Tail(b))

\* the positions of a feed within the cap, and the identities found there
FirstPositions(url) ==
    {j \in DOMAIN FeedEntries(url) : j <= config.max_items}
FirstIds(url) == {EntryId(FeedEntries(url)[j]) : j \in FirstPositions(url)}
FirstIdSeq(url) ==
    [j \in 1..Cardinality(FirstPositions(url)) |-> EntryId(FeedEntries(url)[j])]
FirstLinks(url) == {FeedEntries(url)[j].link : j \in FirstPositions(url)}

\* C16: in each run and for each feed only the first max_items entries are
\* considered: the entry in hand is one of them, nothing beyond them is
\* fetched, translated or marked, and the items of the feed are a subsequence
\* of those entries in feed order, at most max_items of them.
C16_OnlyFirstEntriesConsidered ==
    /\ pc[1] \in {"check", "write"} \cup Processing
       => LET url == Feeds[feed_i[1]].url
          IN  /\ entry_i[1] <= config.max_items + 1
              /\ pc[1] \in Processing
                 => /\ entry_i[1] \in FirstPositions(url)
                    /\ cur[1].eid = EntryId(FeedEntries(url)[entry_i[1]])
              /\ IsSubseq([j \in DOMAIN out_items[1] |-> out_items[1][j].guid],
                          FirstIdSeq(url))
              /\ Len(out_items[1]) <= config.max_items
    /\ DOMAIN seen_items \subseteq UNION {FirstIds(Feeds[k].url) : k \in DOMAIN Feeds}
    /\ DOMAIN fetch_log \subseteq UNION {FirstLinks(Feeds[k].url) : k \in DOMAIN Feeds}
    /\ \A i \in DOMAIN doc_log :
          /\ Len(doc_log[i].doc.items) <= config.max_items
          /\ Guids(doc_log[i].doc) \subseteq FirstIds(doc_log[i].feed)

\* a second run with the cap at 1: the first entry is seen and skipped, the
\* feed ends without an item while its second entry was never marked
C16_Witness ==
    /\ config.max_items = 1
    /\ runs = 2
    /\ pc[1] = "write"
    /\ out_items[1] = <<>>
    /\ EntryId(FeedEntries(Feeds[feed_i[1]].url)[1]) \in skipped
    /\ EntryId(FeedEntries(Feeds[feed_i[1]].url)[2]) \notin DOMAIN seen_items

\* the parts of an entry its identity is made of
Triple(e) == <<e.id, e.link, e.title>>

\* C17: the identity of an entry depends on its triple (id or empty, link,
\* title) only, and two entries with different triples get different
\* identities (sha1 taken as injective).
C17_IdentityInjectiveOnTriples ==
    res # NoArg /\ res.fn = "eid"
    => /\ Triple(arg.e1) = Triple(arg.e2) => res.eid1 = res.eid2
       /\ Triple(arg.e1) # Triple(arg.e2) => res.eid1 # res.eid2

\* C18: the cache key is a function of (translator_name, target_lang,
\* source_text): equal inputs give equal keys, and with the same translator
\* and source text two different target languages give different keys (sha1
\* taken as injective).
C18_CacheKeyDeterminedAndLangSensitive ==
    res # NoArg /\ res.fn = "key"
    => /\ arg.k1 = arg.k2 => res.key1 = res.key2
       /\ ( /\ arg.k1.translator_name = arg.k2.translator_name
            /\ arg.k1.source_text = arg.k2.source_text
            /\ arg.k1.target_lang # arg.k2.target_lang )
          => res.key1 # res.key2

\* two keys were computed for one text and two languages of which one is the
\* other followed by the separator
C18_Witness ==
    /\ res # NoArg /\ res.fn = "key"
    /\ arg.k1.translator_name = arg.k2.translator_name
    /\ arg.k1.source_text = arg.k2.source_text
    /\ arg.k1.target_lang = <<"e">> /\ arg.k2.target_lang = <<"e", ":">>
    /\ res.key1 # res.key2

\* C19: the original-language excerpt embedded in the description of an item
\* has at most 600 characters, whatever the length of the source text.
C19_ExcerptAtMost600 ==
    res # NoArg /\ res.fn = "snip" => Len(res.embedded) <= SNIPPET_CHARS

\* the number of newlines of a text
Newlines(s) == Cardinality({i \in DOMAIN s : s[i] = "\n"})

\* C19, amended: the excerpt is the source text when that has at most 600
\* characters, else its first 600 characters followed by "..." (603
\* characters); the description holds it with every newline replaced by
\* "<br/>", which adds four characters per newline.
C19_ExcerptIsCutSource ==
    res # NoArg /\ res.fn = "snip"
    => LET s == arg.source_text
           x == res.orig_snip
       IN  /\ Len(s) <= SNIPPET_CHARS => x = s
           /\ Len(s) > SNIPPET_CHARS
              => /\ Len(x) = SNIPPET_CHARS + 3
                 /\ SubSeq(x, 1, SNIPPET_CHARS) = SubSeq(s, 1, SNIPPET_CHARS)
                 /\ SubSeq(x, SNIPPET_CHARS + 1, SNIPPET_CHARS + 3) = <<".", ".", ".">>
           /\ Len(res.embedded) = Len(x) + 4 * Newlines(x)
           /\ \A i \in DOMAIN res.embedded : res.embedded[i] # "\n"
           /\ Newlines(x) = 0 => res.embedded = x

\* a source text of more than 600 characters with newlines was cut: the
\* embedded excerpt is longer than 603 characters
C19_Witness ==
    /\ res # NoArg /\ res.fn = "snip"
    /\ Len(arg.source_text) > SNIPPET_CHARS
    /\ Len(res.orig_snip) = SNIPPET_CHARS + 3
    /\ Len(res.embedded) > SNIPPET_CHARS + 3

\* the identities a process has made items of: those of the feed in hand and
\* those of the documents it wrote
Emitted(r) ==
    {out_items[r][j].guid : j \in DOMAIN out_items[r]}
    \cup UNION {Guids(doc_log[i].doc) : i \in {k \in DOMAIN doc_log : doc_log[k].run = r}}

\* the identity a process has processed: the backend answered its call for
\* the entry and the item is made
Processed(r) ==
    {id \in Emitted(r) : cur[r].eid = id /\ cur[r].answer.kind = "returned"}

\* C20: with two runs at work at once on the same tables and the same feed,
\* whatever the interleaving of their steps, an identity is processed
\* (translated by the backend and made an item) by at most one of them.
C20_ConcurrentRunsShareNoIdentity ==
    Processed(1) \cap Processed(2) = {}

\* the step of process r that executes its mark_seen / its cache_put
MarkStep(r) == pc[r] = "mark" /\ pc'[r] \notin {"mark", "crashed"}
PutStep(r) == pc[r] = "put" /\ pc'[r] = "append"

\* C21: under every interleaving of the marks and puts of concurrent runs,
\* seen_items keeps one record per identity whose first_seen is that of the
\* earliest mark (a later mark changes nothing), and translated_cache keeps
\* one record per key, all of whose fields are those of the last put.
C21_MarksIdempotentPutsWhole ==
    [][\A r \in Procs :
          /\ MarkStep(r)
             => /\ cur[r].eid \in DOMAIN seen_items'
                /\ cur[r].eid \in DOMAIN seen_items => seen_items' = seen_items
                /\ cur[r].eid \notin DOMAIN seen_items
                   => /\ seen_items'[cur[r].eid] = clock
                      /\ DOMAIN seen_items' = DOMAIN seen_items \cup {cur[r].eid}
                /\ \A id \in DOMAIN seen_items : seen_items'[id] = seen_items[id]
                /\ \A id \in DOMAIN seen_items' : seen_items'[id] < clock'
          /\ PutStep(r)
             => /\ DOMAIN translated_cache' = DOMAIN translated_cache \cup {cur[r].cache_key}
                /\ translated_cache'[cur[r].cache_key]
                      = [created_at |-> clock, translator |-> translator_name,
                         target_lang |-> config.target_lang,
                         source_len |-> Len(cur[r].source_text),
                         translated |-> cur[r].translated[1]]
                /\ \A k \in DOMAIN translated_cache :
                      k # cur[r].cache_key => translated_cache'[k] = translated_cache[k]]_vars

\* both processes have put a record under the same key with different
\* translated values and have marked the same identity: the record is the
\* later put's, the first_seen the earlier mark's
C21_Witness ==
    /\ pc[1] \in {"write", "done"} /\ pc[2] \in {"write", "done"}
    /\ cur[1].eid = cur[2].eid /\ cur[1].eid \in DOMAIN seen_items
    /\ cur[1].cache_key = cur[2].cache_key
    /\ cur[1].answer.kind = "returned" /\ cur[2].answer.kind = "returned"
    /\ cur[1].translated # cur[2].translated
    /\ remarks = 1
    /\ translated_cache[cur[1].cache_key].created_at >= 2

\* every entry of every feed of the list, with the position of its feed
AllEntries ==
    UNION {{[feed |-> k, e |-> FeedEntries(Feeds[k].url)[j]] :
              j \in DOMAIN FeedEntries(Feeds[k].url)} : k \in DOMAIN Feeds}

\* the identities of the entries without an upstream id
IdlessIds == {EntryId(x.e) : x \in {y \in AllEntries : y.e.id = <<>>}}

\* the first feed of the list that has the identity within its cap
FirstFeedWith(g) ==
    Feeds[SetMin({k \in DOMAIN Feeds : g \in FirstIds(Feeds[k].url)})].url

\* C22: two entries without upstream id and with the same link and title
\* have one identity, also in different feeds; once the first is processed
\* the second is skipped: the identity is never in hand again, and it is in
\* one document at most, that of the first feed that has it, in this run and
\* in every later one.
C22_SameLinkTitleOnce ==
    /\ \A x \in AllEntries, y \in AllEntries :
          (x.e.id = <<>> /\ y.e.id = <<>> /\ x.e.link = y.e.link /\ x.e.title = y.e.title)
          => EntryId(x.e) = EntryId(y.e)
    /\ \A g \in IdlessIds :
          /\ (g \in DOMAIN seen_items /\ pc[1] \in Processing) => cur[1].eid # g
          /\ \A i \in DOMAIN doc_log :
                g \in Guids(doc_log[i].doc)
                => /\ doc_log[i].feed = FirstFeedWith(g)
                   /\ Cardinality({j \in DOMAIN doc_log[i].doc.items :
                                      doc_log[i].doc.items[j].guid = g}) = 1
                   /\ \A k \in DOMAIN doc_log : k # i => g \notin Guids(doc_log[k].doc)

\* two feeds hold the same entry without id; two runs are complete: the
\* entry is in the first document of the first run and in none of the other
\* three, having been skipped
C22_Witness ==
    /\ Len(Feeds) = 2 /\ runs = 2 /\ pc[1] = "done" /\ Len(doc_log) = 4
    /\ EntryB.id = <<>>
    /\ \E j \in FirstPositions(Feeds[2].url) : FeedEntries(Feeds[2].url)[j] = EntryB
    /\ EntryId(EntryB) \in Guids(doc_log[1].doc)
    /\ \A i \in 2..4 : EntryId(EntryB) \notin Guids(doc_log[i].doc)
    /\ EntryId(EntryB) \in skipped

\* C23: the source text is the stripped article text exactly when the entry
\* has a link, the fetch returned content and the stripped extraction has at
\* least 400 characters, and the summary without its markup in every other
\* case; what goes to the cache lookup and to the backend is that text
\* truncated to the budget of 12000 characters.
C23_SourceTextChoice ==
    res # NoArg /\ res.fn = "source"
    => LET o == arg.o
           content == /\ arg.e.link # <<>>
                      /\ ~o.raises /\ o.status < 400 /\ o.text # <<>>
           extraction == IF content THEN Strip(extract_main_text(o.text[1])) ELSE <<>>
           chosen == IF content /\ Len(extraction) >= 400
                     THEN extraction
                     ELSE GetText(arg.e.summary, <<" ">>)
       IN  /\ res.cur.source_text = truncate_for_translation(chosen, 12000)
           /\ Len(res.cur.source_text) <= 12000 + Len(DIVIDER)
           /\ res.cur.cache_key
                 = sha1(<<translator_name, ":">> \o config.target_lang \o <<":">>
                        \o res.cur.source_text)

\* an article of exactly 400 characters was taken as the source text
C23_Witness ==
    /\ res # NoArg /\ res.fn = "source"
    /\ arg.e.link # <<>>
    /\ res.cur.source_text = Rep("a", 400)

\* the run is over and the last documents written are those of the feeds of
\* the list, one each
AllFeedsWritten ==
    /\ pc[1] = "done"
    /\ Len(doc_log) >= Len(Feeds)
    /\ \A k \in DOMAIN Feeds :
          doc_log[Len(doc_log) - Len(Feeds) + k].feed = Feeds[k].url

\* C24: with a valid configuration, every fetch and every backend call
\* ending one way or another and nothing killing the process, a started run
\* goes on until it has written the document of every feed of the list and
\* exits: it never stops short of that.
C24_StartedRunStopsOnlyWritten ==
    pc[1] \in Stopped \ {"idle", "config_error"} => AllFeedsWritten

\* C25: in every reachable state, the one a crash leaves included, every
\* identity of seen_items has a record of translated_cache under the cache
\* key of the source text its entry was processed with: at its mark an entry
\* has its record (put or found) under its own key, and no step deletes or
\* moves a record.
C25_SeenImpliesCached ==
    [][ /\ MarkStep(1)
           => /\ cur[1].cache_key = sha1(<<translator_name, ":">> \o config.target_lang
                                          \o <<":">> \o cur[1].source_text)
              /\ cur[1].cache_key \in DOMAIN translated_cache
              /\ translated_cache[cur[1].cache_key].source_len = Len(cur[1].source_text)
              /\ cur[1].cache_key \in DOMAIN translated_cache'
        /\ seen_items' # seen_items => MarkStep(1)
        /\ DOMAIN translated_cache \subseteq DOMAIN translated_cache'
        /\ Cardinality(DOMAIN seen_items') > 0
           => Cardinality(DOMAIN translated_cache') > 0 ]_vars

\* a crash has left two marked identities and their records behind
C25_Witness ==
    /\ pc[1] = "crashed"
    /\ Cardinality(DOMAIN seen_items) >= 2
    /\ Cardinality(DOMAIN translated_cache) >= 2

\* the items built so far: those of the feed in hand and those written
BuiltItems ==
    {out_items[1][j] : j \in DOMAIN out_items[1]}
    \cup UNION {{doc_log[i].doc.items[j] : j \in DOMAIN doc_log[i].doc.items} :
                  i \in DOMAIN doc_log}

\* C26: a cache record stored for a non-empty source text has a non-empty
\* translated value, and an item built from a non-empty source text (its
\* excerpt is not empty) has a non-empty translated block, whatever the
\* backend returned.
C26_NonEmptySourceNonEmptyTranslation ==
    /\ \A k \in DOMAIN translated_cache :
          translated_cache[k].source_len > 0 => translated_cache[k].translated # <<>>
    /\ \A it \in BuiltItems :
          it.description.snippet # <<>> => it.description.translated # <<>>
    /\ pc[1] \in {"put", "append", "mark"} /\ cur[1].source_text # <<>>
       => cur[1].translated # NoneV /\ cur[1].translated[1] # <<>>

\* the backend answered with nothing but whitespace for a non-empty source
\* text; the record and the item are there, with a translated value
C26_Witness ==
    /\ pc[1] = "mark"
    /\ cur[1].answer = EmptyAnswer
    /\ cur[1].source_text # <<>>
    /\ translated_cache[cur[1].cache_key].source_len > 0
    /\ translated_cache[cur[1].cache_key].translated # <<>>
    /\ Last(out_items[1]).guid = cur[1].eid
    /\ Last(out_items[1]).description.translated # <<>>

====
